---- MODULE Spec2Model ----
(***************************************************************************)
(* Model of export_audit_trail.py: the command-line driver that pages      *)
(* through the audit-trail endpoint, normalises every raw event into a     *)
(* flat row and appends the rows to a CSV file.                            *)
(*                                                                         *)
(* Encoding of Python values                                               *)
(*   - a dict is a record whose fields are options: <<>> is "key absent",  *)
(*     <<v>> is "key present with value v"; Get(d, k, default) is          *)
(*     d.get(k, default);                                                  *)
(*   - a list is a sequence, a str is a string, None is the value None;    *)
(*   - an exception leaving a function is the name of the exception class, *)
(*     NoException when the function returns normally.                     *)
(* JSON null values inside events are outside the modelled input domain,  *)
(* and so are the hostname and the printed messages.                       *)
(***************************************************************************)
EXTENDS Integers, Sequences, FiniteSets, TLC

VARIABLES
    \* ---- the export run (main / export_audit_trail) ----
    pc,              \* position of the process
    args,            \* the parsed command line (argparse namespace)
    utc_offset,      \* seconds the local time zone is ahead of UTC
    request_headers, \* result of build_request_headers
    request_params,  \* result of build_request_params (offset added by the fetch)
    offset,          \* local of export_audit_trail
    keep_extracting, \* local of export_audit_trail
    raw_events,      \* local of export_audit_trail: the page just fetched
    csv_file,        \* the file CSV_BASE_FILENAME: <<>> if it does not exist, else <<rows>>
    remote,          \* the events the remote service holds, newest first
    http_log,        \* every requests.get issued, in order: [offset, limit]
    pages,           \* every events list the driver took out of a response, in order
    exit_status,     \* <<>> while the process runs, <<status>> once it has ended
    exception,       \* the exception that ended the process, NoException otherwise
    \* ---- one application of parse_event (the normaliser on its own) ----
    raw_event,       \* argument of parse_event
    parsed_event,    \* value returned by parse_event
    target_data,     \* local of parse_event: result of flatten_target, <<>> if not called
    parse_exception, \* exception raised by parse_event, NoException otherwise
    parse_pc         \* "call" before parse_event ran, "returned" / "raised" after

driverVars == <<pc, args, utc_offset, request_headers, request_params, offset,
                keep_extracting, raw_events, csv_file, remote, http_log, pages,
                exit_status, exception>>
parseVars == <<raw_event, parsed_event, target_data, parse_exception, parse_pc>>
vars == <<driverVars, parseVars>>

-----------------------------------------------------------------------------
(* Python values *)

None == "<None>"
NoException == "<no exception>"

Get(d, k, default) == IF d[k] = <<>> THEN default ELSE d[k][1]

Falsy(v) == v = None \/ v = ""

Or(a, b) == IF Falsy(a) THEN b ELSE a

-----------------------------------------------------------------------------
(* Module constants, lines 8-46 *)

\* The page size.  The program uses 1000; the model scales it down to PageSize
\* so that full pages, short pages and exact multiples of the page size are
\* all enumerated.
PageSize == 2

BATCH_LIMIT == PageSize

UTC_TIMESTAMP == "DATE & TIME (UTC)"
USER_NAME == "USER NAME"
EVENT == "EVENT"
TARGET_NAME == "TARGET NAME"
PROJECT_NAME == "PROJECT NAME"
DATASET_NAME == "DATASET NAME"
FILE_NAME == "FILE NAME"
TARGET_USER == "TARGET USER"
FEATURE_FLAG == "FEATURE FLAG"
OLD_VALUE == "OLD VALUE"
NEW_VALUE == "NEW VALUE"
ADDED_VALUE == "ADDED"
REMOVED_VALUE == "REMOVED"
JOBS == "JOBS"
COMMAND == "COMMAND"

CSV_HEADERS ==
    << UTC_TIMESTAMP, USER_NAME, EVENT, TARGET_NAME, PROJECT_NAME, DATASET_NAME,
       FILE_NAME, TARGET_USER, FEATURE_FLAG, OLD_VALUE, NEW_VALUE, ADDED_VALUE,
       REMOVED_VALUE, JOBS, COMMAND >>

HeaderSet == { CSV_HEADERS[i] : i \in 1..Len(CSV_HEADERS) }

-----------------------------------------------------------------------------
(* The empty dicts used as defaults of dict.get *)

EmptyEntity == [entityType |-> <<>>, id |-> <<>>, name |-> <<>>]
EmptyAction == [eventName |-> <<>>]
EmptyMetadata == [command |-> <<>>, query |-> <<>>, schedule |-> <<>>]

-----------------------------------------------------------------------------
(* datetime.fromtimestamp(ms / 1000, UTC).strftime('%Y-%m-%d %H:%M:%S')    *)
(* for 0 <= ms < 31 days, the range the model's integers can hold.         *)

Pad2(n) == IF n < 10 THEN "0" \o ToString(n) ELSE ToString(n)

FormatUTC(ms) ==
    LET secs == ms \div 1000
        day  == 1 + (secs \div 86400)
        hh   == (secs % 86400) \div 3600
        mm   == (secs % 3600) \div 60
        ss   == secs % 60
    IN  "1970-01-" \o Pad2(day) \o " " \o Pad2(hh) \o ":" \o Pad2(mm) \o ":" \o Pad2(ss)

-----------------------------------------------------------------------------
(* flatten_target, lines 253-271 *)

\* [obj.get("name") for obj in lst]
NamesOf(lst) == [i \in 1..Len(lst) |-> Get(lst[i], "name", None)]

\* ','.join(items) raises TypeError when an item is not a str
JoinRaises(items) == \E i \in 1..Len(items) : items[i] = None

RECURSIVE Join(_)
Join(items) ==
    IF Len(items) = 0 THEN ""
    ELSE IF Len(items) = 1 THEN items[1]
    ELSE items[1] \o "," \o Join(Tail(items))

flatten_target_raises(target_raw) ==
    LET target_fields == Get(target_raw, "fieldChanges", <<>>)
    IN  IF target_fields # <<>>
        THEN LET target == target_fields[1]
             IN  IF JoinRaises(NamesOf(Get(target, "added", <<>>))) THEN "TypeError"
                 ELSE IF JoinRaises(NamesOf(Get(target, "removed", <<>>))) THEN "TypeError"
                 ELSE NoException
        ELSE NoException

flatten_target(target_raw) ==
    LET target_entity == Get(target_raw, "entity", EmptyEntity)
        base == [ entityType |-> << Get(target_entity, "entityType", None) >>,
                  name       |-> << Get(target_entity, "name", Get(target_entity, "id", None)) >>,
                  fieldName  |-> <<>>, fieldType |-> <<>>, before |-> <<>>,
                  after      |-> <<>>, unit      |-> <<>>, added  |-> <<>>,
                  removed    |-> <<>> ]
        target_fields == Get(target_raw, "fieldChanges", <<>>)
    IN  IF target_fields # <<>>
        THEN LET target == target_fields[1]
             IN  [ base EXCEPT
                     !.fieldName = << Get(target, "fieldName", None) >>,
                     !.fieldType = << Get(target, "fieldType", None) >>,
                     !.before    = << Get(target, "before", None) >>,
                     !.after     = << Get(target, "after", None) >>,
                     !.unit      = << Get(target, "unit", None) >>,
                     !.added     = << Join(NamesOf(Get(target, "added", <<>>))) >>,
                     !.removed   = << Join(NamesOf(Get(target, "removed", <<>>))) >> ]
        ELSE base

-----------------------------------------------------------------------------
(* parse_event, lines 180-250 *)

\* the "user" branch filling the jobs column
TargetTypeColumns_user_as_job(p, td, raw) ==
    IF td.entityType[1] = "user"
    THEN [p EXCEPT ![JOBS] = Get(td, "name", None)]
    ELSE p

\* lines 221-236: the entity-type specific columns of the first target
TargetTypeColumns(p, td, raw) ==
    IF td.entityType[1] = "user"
    THEN [p EXCEPT ![TARGET_USER] = Get(td, "name", None)]
    ELSE IF td.entityType[1] \in {"dataset", "datasetSnapshot"}
    THEN LET q == [p EXCEPT ![DATASET_NAME] = Get(td, "name", None)]
         IN  IF Get(td, "fieldName", None) = "filePath"
             THEN [q EXCEPT ![FILE_NAME] = Get(td, "after", None)]
             ELSE q
    ELSE IF td.entityType[1] \in {"scheduledRun", "job"}
    THEN LET metadata == Get(raw, "metadata", EmptyMetadata)
         IN  [p EXCEPT ![JOBS] = Get(td, "name", None),
                       ![COMMAND] = Get(metadata, "command", None),
                       ![NEW_VALUE] = Or(Get(metadata, "schedule", None), p[NEW_VALUE])]
    ELSE IF td.entityType[1] = "featureFlag"
    THEN [p EXCEPT ![FEATURE_FLAG] = Get(td, "name", None)]
    ELSE p

\* lines 211-236: the columns taken from the first target
TargetColumns(p, raw) ==
    LET targets_raw == Get(raw, "targets", <<>>)
    IN  IF targets_raw # <<>>
        THEN LET td == flatten_target(targets_raw[1])
                 q  == [p EXCEPT ![TARGET_NAME] = Get(td, "name", None),
                                 ![OLD_VALUE] = Get(td, "before", None),
                                 ![NEW_VALUE] = Get(td, "after", None),
                                 ![ADDED_VALUE] = Get(td, "added", None),
                                 ![REMOVED_VALUE] = Get(td, "removed", None)]
             IN  TargetTypeColumns(q, td, raw)
        ELSE p

\* lines 241-246: the body of the loop over the affecting entries
AffectingStep(p, affecting) ==
    LET type == Get(affecting, "entityType", None)
    IN  IF type = "dataset"
        THEN [p EXCEPT ![DATASET_NAME] = Get(affecting, "name", Get(affecting, "id", None))]
        ELSE IF type \in {"appliedUser", "user"}
        THEN [p EXCEPT ![TARGET_USER] = Get(affecting, "name", Get(affecting, "id", None))]
        ELSE IF type = "file"
        THEN [p EXCEPT ![FILE_NAME] = Get(affecting, "name", None)]
        ELSE p

\* only the first affecting entry consumed, as for targets
AffectingColumns_first_only(p, affecting_raw) ==
    IF affecting_raw = <<>> THEN p ELSE AffectingStep(p, Head(affecting_raw))

\* lines 238-246: for affecting in affecting_raw, in list order
RECURSIVE AffectingColumns(_, _)
AffectingColumns(p, affecting_raw) ==
    IF affecting_raw = <<>> THEN p
    ELSE AffectingColumns(AffectingStep(p, Head(affecting_raw)), Tail(affecting_raw))

parse_event_raises(raw) ==
    IF raw.timestamp = <<>> THEN "KeyError"
    ELSE LET targets_raw == Get(raw, "targets", <<>>)
         IN  IF targets_raw # <<>> THEN flatten_target_raises(targets_raw[1])
             ELSE NoException

parse_event(raw) ==
    LET p0 == [h \in HeaderSet |-> None]
        p1 == [p0 EXCEPT ![UTC_TIMESTAMP] = FormatUTC(raw.timestamp[1])]
        actor_data == Get(raw, "actor", EmptyEntity)
        p2 == [p1 EXCEPT ![USER_NAME] = Get(actor_data, "name", Get(actor_data, "id", None))]
        action_data == Get(raw, "action", EmptyAction)
        p3 == [p2 EXCEPT ![EVENT] = Get(action_data, "eventName", None)]
        in_data == Get(raw, "in", EmptyEntity)
        p4 == IF Get(in_data, "entityType", None) = "project"
              THEN [p3 EXCEPT ![PROJECT_NAME] = Get(in_data, "name", Get(in_data, "id", None))]
              ELSE p3
        p5 == TargetColumns(p4, raw)
        p6 == AffectingColumns(p5, Get(raw, "affecting", <<>>))
    IN  [p6 EXCEPT ![COMMAND] =
            Or(p6[COMMAND], Get(Get(raw, "metadata", EmptyMetadata), "query", None))]

\* the local target_data of parse_event once it has returned or raised
TargetDataOf(raw) ==
    LET targets_raw == Get(raw, "targets", <<>>)
    IN  IF raw.timestamp # <<>> /\ targets_raw # <<>>
           /\ flatten_target_raises(targets_raw[1]) = NoException
        THEN << flatten_target(targets_raw[1]) >>
        ELSE <<>>

-----------------------------------------------------------------------------
(* The raw events parse_event is applied to *)

MaxAdded == 3        \* longest added list of a field change
MaxAffecting == 3    \* longest affecting list of an event

Opt(S) == {<<>>} \cup { <<x>> : x \in S }

SeqsUpTo(S, n) == UNION { [1..k -> S] : k \in 0..n }

\* a present key holding one fixed value
Only(x) == { <<x>> }

SomeTimestamps == {0, 93784999}

Actors == [entityType : Only("user"), id : Opt({"u-7"}), name : Opt({"alice"})]

Actions == [eventName : Opt({"Create Dataset"})]

Scopes == [entityType : Opt({"project", "organization"}),
           id : Opt({"p-1"}), name : Opt({"quick-start"})]

Metadatas == [command : Opt({"main.py"}), query : Opt({"select 1"}),
              schedule : Opt({"0 0 * * *"})]

TargetTypes == {"user", "dataset", "datasetSnapshot", "scheduledRun", "job",
                "featureFlag", "environment"}

TargetEntities == [entityType : Opt(TargetTypes), id : Opt({"t-1"}), name : Opt({"t-name"})]

\* entities of an added / removed list: with and without a name, with and without an id
AddedEntities == [entityType : Only("user"), id : Opt({"x-1"}), name : Opt({"ann", "bob"})]
RemovedEntities == [entityType : Only("user"), id : {<<>>}, name : Opt({"rob"})]

PlainFieldChanges ==
    [fieldName : Opt({"filePath", "description"}), fieldType : {<<>>},
     before : Opt({"old"}), after : Opt({"new"}), unit : {<<>>},
     added : {<<>>, << <<>> >>}, removed : {<<>>}]

ListFieldChanges ==
    [fieldName : Only("collaborators"), fieldType : Opt({"list"}),
     before : {<<>>}, after : {<<>>}, unit : Opt({"user"}),
     added : Opt(SeqsUpTo(AddedEntities, MaxAdded)),
     removed : Opt(SeqsUpTo(RemovedEntities, 1))]

OtherFieldChange ==
    [fieldName |-> <<"filePath">>, fieldType |-> <<>>, before |-> <<"old-2">>,
     after |-> <<"new-2">>, unit |-> <<>>,
     added |-> << << [entityType |-> <<"user">>, id |-> <<>>, name |-> <<"zed">>] >> >>,
     removed |-> <<>>]

OtherTarget ==
    [entity |-> << [entityType |-> <<"job">>, id |-> <<"t-2">>, name |-> <<"t-name-2">>] >>,
     fieldChanges |-> << <<OtherFieldChange>> >>]

\* first targets whose entity and single field change vary
PlainTargets ==
    [entity : Opt(TargetEntities),
     fieldChanges : {<<>>, << <<>> >>} \cup { << <<fc>> >> : fc \in PlainFieldChanges }]

\* first targets whose added / removed lists vary; a second field change may follow
ListTargets ==
    [entity : Only([entityType |-> <<"project">>, id |-> <<"t-1">>, name |-> <<>>]),
     fieldChanges : { << <<fc>> >> : fc \in ListFieldChanges }
                    \cup { << <<fc, OtherFieldChange>> >> : fc \in ListFieldChanges }]

AffectingTypes == {"dataset", "user", "appliedUser", "file", "project"}

\* affecting entries: named n1 or n2 with an id, with an id only, with neither
AffectingEntities ==
    { e \in [entityType : Opt(AffectingTypes), id : Opt({"a-1"}), name : Opt({"n1", "n2"})] :
        e.name # <<>> => e.id # <<>> }

UserTarget ==
    [entity |-> << [entityType |-> <<"user">>, id |-> <<"t-1">>, name |-> <<"t-name">>] >>,
     fieldChanges |-> <<>>]

DatasetFileTarget ==
    [entity |-> << [entityType |-> <<"dataset">>, id |-> <<"t-1">>, name |-> <<>>] >>,
     fieldChanges |-> << << [fieldName |-> <<"filePath">>, fieldType |-> <<>>,
                             before |-> <<>>, after |-> <<"/data/a.csv">>, unit |-> <<>>,
                             added |-> <<>>, removed |-> <<>>] >> >>]

TheActor == [entityType |-> <<"user">>, id |-> <<"u-7">>, name |-> <<"alice">>]
TheAction == [eventName |-> <<"Create Dataset">>]

\* events that vary in the columns taken from the event itself
HeaderEvents ==
    [timestamp : Opt(SomeTimestamps), actor : Opt(Actors), action : Opt(Actions),
     in : Opt(Scopes), targets : {<<>>, << <<>> >>}, affecting : {<<>>, << <<>> >>},
     metadata : Opt(Metadatas)]

\* events that vary in the first target, with and without a second target
TargetEvents ==
    [timestamp : Only(0), actor : Only(TheActor), action : Only(TheAction), in : {<<>>},
     targets : { << <<t>> >> : t \in PlainTargets }
               \cup { << <<t, OtherTarget>> >> : t \in PlainTargets },
     affecting : {<<>>} \cup { << <<a>> >> : a \in
                    { e \in AffectingEntities : e.name = <<"n1">> /\ e.id # <<>> } },
     metadata : Opt(Metadatas)]

\* events that vary in the added / removed lists of the first target
ListEvents ==
    [timestamp : Only(0), actor : Only(TheActor), action : {<<>>}, in : {<<>>},
     targets : { << <<t>> >> : t \in ListTargets }, affecting : {<<>>},
     metadata : {<<>>}]

\* events that vary in the affecting list
AffectingEvents ==
    [timestamp : Only(0), actor : {<<>>}, action : Only(TheAction), in : {<<>>},
     targets : {<<>>, << <<UserTarget>> >>, << <<DatasetFileTarget>> >>},
     affecting : Opt(SeqsUpTo(AffectingEntities, MaxAffecting)),
     metadata : {<<>>}]

-----------------------------------------------------------------------------
(* The state while only the normaliser runs / while only the driver runs *)

NoArgs == [jwt |-> None, api_key |-> None, startTimestamp |-> <<>>, endTimestamp |-> <<>>]

DriverIdle ==
    /\ pc = "idle"
    /\ args = NoArgs
    /\ utc_offset = 0
    /\ request_headers = <<>>
    /\ request_params = <<>>
    /\ offset = 0
    /\ keep_extracting = FALSE
    /\ raw_events = <<>>
    /\ csv_file = <<>>
    /\ remote = <<>>
    /\ http_log = <<>>
    /\ pages = <<>>
    /\ exit_status = <<>>
    /\ exception = NoException

ParserIdle ==
    /\ raw_event = <<>>
    /\ parsed_event = <<>>
    /\ target_data = <<>>
    /\ parse_exception = NoException
    /\ parse_pc = "idle"

-----------------------------------------------------------------------------
(* Specification of one call of parse_event *)

InitParse ==
    /\ DriverIdle
    /\ \/ raw_event \in HeaderEvents
       \/ raw_event \in TargetEvents
       \/ raw_event \in ListEvents
       \/ raw_event \in AffectingEvents
    /\ parsed_event = <<>>
    /\ target_data = <<>>
    /\ parse_exception = NoException
    /\ parse_pc = "call"

\* parse_event returns the flat record
ParseEventReturns ==
    /\ parse_pc = "call"
    /\ parse_event_raises(raw_event) = NoException
    /\ parsed_event' = << parse_event(raw_event) >>
    /\ target_data' = TargetDataOf(raw_event)
    /\ parse_pc' = "returned"
    /\ UNCHANGED <<raw_event, parse_exception, driverVars>>

\* parse_event is left by an exception
ParseEventRaises ==
    /\ parse_pc = "call"
    /\ parse_event_raises(raw_event) # NoException
    /\ parse_exception' = parse_event_raises(raw_event)
    /\ target_data' = TargetDataOf(raw_event)
    /\ parse_pc' = "raised"
    /\ UNCHANGED <<raw_event, parsed_event, driverVars>>

NextParse == ParseEventReturns \/ ParseEventRaises

SpecParse == InitParse /\ [][NextParse]_vars

-----------------------------------------------------------------------------
(* main: the validations of the command line, lines 79-97 *)

\* A --start_date / --end_date text is the tuple of the numbers it spells:
\* <<Y, M, D, h, m, s>> for "Y-M-D h:m:s"; a text of another shape has
\* another length.
ValidDateTexts == { <<1970, 1, 2, 3, 4, 5>> }
InvalidDateTexts == { <<1970, 1, 2>>, <<1970, 13, 1, 0, 0, 0>> }
DateTexts == ValidDateTexts \cup InvalidDateTexts

DaysInMonth(y, m) ==
    IF m \in {4, 6, 9, 11} THEN 30
    ELSE IF m = 2 THEN (IF (y % 4 = 0 /\ y % 100 # 0) \/ y % 400 = 0 THEN 29 ELSE 28)
    ELSE 31

\* datetime.strptime(raw_timestamp, "%Y-%m-%d %H:%M:%S") raises ValueError
strptime_raises(text) ==
    ~ /\ Len(text) = 6
      /\ text[1] \in 1..9999
      /\ text[2] \in 1..12
      /\ text[3] \in 1..DaysInMonth(text[1], text[2])
      /\ text[4] \in 0..23
      /\ text[5] \in 0..59
      /\ text[6] \in 0..59

\* int(parsed.timestamp() * 1000) of a naive local time in January 1970
validate_and_format_timestamp(text, tz) ==
    (((text[3] - 1) * 86400 + text[4] * 3600 + text[5] * 60 + text[6]) - tz) * 1000

\* only the JWT looked at, and the test inverted for the API key
no_credentials_inverted(a) == Falsy(a.jwt) /\ ~Falsy(a.api_key)

\* line 81
no_credentials(a) == Falsy(a.jwt) /\ Falsy(a.api_key)

\* lines 90-91: the first of the two dates that does not parse, if any
bad_date(a) ==
    \/ a.startTimestamp # <<>> /\ strptime_raises(a.startTimestamp[1])
    \/ a.endTimestamp # <<>> /\ strptime_raises(a.endTimestamp[1])

build_request_headers(jwt, api_key) ==
    IF ~Falsy(jwt)
    THEN [accept |-> "application/json", Authorization |-> <<"Bearer " \o jwt>>,
          XDominoApiKey |-> <<>>]
    ELSE [accept |-> "application/json", Authorization |-> <<>>,
          XDominoApiKey |-> <<api_key>>]

\* the filters --event, --user_name, --target_name, --project_name are passed
\* through like the two timestamps and are left out of the model
build_request_params(a) ==
    [startTimestamp |-> a.startTimestamp, endTimestamp |-> a.endTimestamp,
     limit |-> <<BATCH_LIMIT>>, sort |-> <<"-timestamp">>, offset |-> <<>>]

FormattedArgs(a, tz) ==
    [a EXCEPT
       !.startTimestamp = IF a.startTimestamp # <<>>
                          THEN << validate_and_format_timestamp(a.startTimestamp[1], tz) >>
                          ELSE <<>>,
       !.endTimestamp = IF a.endTimestamp # <<>>
                        THEN << validate_and_format_timestamp(a.endTimestamp[1], tz) >>
                        ELSE <<>>]

\* sys.exit(1) at line 83 or line 111
MainExits ==
    /\ pc = "main"
    /\ no_credentials(args) \/ bad_date(args)
    /\ pc' = "exited"
    /\ exit_status' = <<1>>
    /\ UNCHANGED <<args, utc_offset, request_headers, request_params, offset,
                   keep_extracting, raw_events, csv_file, remote, http_log, pages,
                   exception, parseVars>>

\* lines 90-100: the command line is accepted and export_audit_trail is called
MainCallsExport ==
    /\ pc = "main"
    /\ ~no_credentials(args)
    /\ ~bad_date(args)
    /\ args' = FormattedArgs(args, utc_offset)
    /\ request_headers' = << build_request_headers(args.jwt, args.api_key) >>
    /\ request_params' = << build_request_params(args') >>
    /\ pc' = "export_audit_trail"
    /\ UNCHANGED <<utc_offset, offset, keep_extracting, raw_events, csv_file, remote,
                   http_log, pages, exit_status, exception, parseVars>>

-----------------------------------------------------------------------------
(* export_audit_trail, lines 130-152 *)

\* csv.DictWriter.writerow: the cells in the order of fieldnames, None as ''
CsvRow(parsed) ==
    [i \in 1..Len(CSV_HEADERS) |->
        IF parsed[CSV_HEADERS[i]] = None THEN "" ELSE parsed[CSV_HEADERS[i]]]

\* lines 155-158: open(..., mode='w') truncates, then the header is written
initialize_csv == << <<CSV_HEADERS>> >>

\* the file opened with mode='w' for every page
write_to_csv_truncating(file, parsed_events) ==
    << [i \in 1..Len(parsed_events) |-> CsvRow(parsed_events[i])] >>

\* lines 274-277: open(..., mode='a') and writerows
write_to_csv(file, parsed_events) ==
    LET old == IF file = <<>> THEN <<>> ELSE file[1]
    IN  << old \o [i \in 1..Len(parsed_events) |-> CsvRow(parsed_events[i])] >>

\* lines 173-177
parse_events(events) == [i \in 1..Len(events) |-> parse_event(events[i])]

parse_events_raises(events) ==
    IF \E i \in 1..Len(events) : parse_event_raises(events[i]) # NoException
    THEN LET first == CHOOSE i \in 1..Len(events) :
                        /\ parse_event_raises(events[i]) # NoException
                        /\ \A j \in 1..(i-1) : parse_event_raises(events[j]) = NoException
         IN  parse_event_raises(events[first])
    ELSE NoException

\* the loop ended by an empty page only
short_page_if_empty(count) == count = 0

\* line 145: the page just fetched is the last one
short_page(count) == count < BATCH_LIMIT

\* the offset advanced by one event instead of one page
next_offset_by_one(off) == off + 1

\* line 148
next_offset(off) == off + BATCH_LIMIT

\* lines 131-134
InitializeCsv ==
    /\ pc = "export_audit_trail"
    /\ csv_file' = initialize_csv
    /\ offset' = 0
    /\ keep_extracting' = TRUE
    /\ pc' = "get_events_batch"
    /\ UNCHANGED <<args, utc_offset, request_headers, request_params, raw_events,
                   remote, http_log, pages, exit_status, exception, parseVars>>

\* the events the service selects for a request: at most `limit` from `offset` on
RemotePage(off, limit) ==
    SubSeq(remote, off + 1, IF off + limit < Len(remote) THEN off + limit ELSE Len(remote))

Exchange(status) == [offset |-> offset, limit |-> BATCH_LIMIT, status |-> status]

\* lines 137-139, 161-170: the service answers 200 with {"events": [...]}
GetEventsBatchOk ==
    /\ pc = "get_events_batch"
    /\ keep_extracting
    /\ request_params' = << [request_params[1] EXCEPT !.offset = <<offset>>] >>
    /\ http_log' = Append(http_log, Exchange("200"))
    /\ raw_events' = RemotePage(offset, BATCH_LIMIT)
    /\ pages' = Append(pages, raw_events')
    /\ pc' = "parse_and_write"
    /\ UNCHANGED <<args, utc_offset, request_headers, offset, keep_extracting, csv_file,
                   remote, exit_status, exception, parseVars>>

\* lines 137-139, 161-170: the service answers with an error status and a JSON
\* object that has no "events" key; response.json() returns it and
\* data.get('events', []) is the empty list
GetEventsBatchErrorStatus ==
    /\ pc = "get_events_batch"
    /\ keep_extracting
    /\ request_params' = << [request_params[1] EXCEPT !.offset = <<offset>>] >>
    /\ \E status \in {"401", "500"} : http_log' = Append(http_log, Exchange(status))
    /\ raw_events' = <<>>
    /\ pages' = Append(pages, raw_events')
    /\ pc' = "parse_and_write"
    /\ UNCHANGED <<args, utc_offset, request_headers, offset, keep_extracting, csv_file,
                   remote, exit_status, exception, parseVars>>

\* lines 166-168: requests.get raises (no connection), or the body is not JSON
\* and response.json() raises; the exception leaves main and ends the process
GetEventsBatchRaises ==
    /\ pc = "get_events_batch"
    /\ keep_extracting
    /\ request_params' = << [request_params[1] EXCEPT !.offset = <<offset>>] >>
    /\ \E e \in {"ConnectionError", "JSONDecodeError"} :
          /\ http_log' = Append(http_log, Exchange(e))
          /\ exception' = e
    /\ pc' = "raised"
    /\ exit_status' = <<1>>
    /\ UNCHANGED <<args, utc_offset, request_headers, offset, keep_extracting, raw_events,
                   csv_file, remote, pages, parseVars>>

\* lines 141-152: the page is parsed and appended, then the loop test
ParseAndWrite ==
    /\ pc = "parse_and_write"
    /\ IF parse_events_raises(raw_events) # NoException
       THEN /\ exception' = parse_events_raises(raw_events)
            /\ pc' = "raised"
            /\ exit_status' = <<1>>
            /\ UNCHANGED <<csv_file, offset, keep_extracting>>
       ELSE /\ csv_file' = write_to_csv(csv_file, parse_events(raw_events))
            /\ IF short_page(Len(raw_events))
               THEN /\ keep_extracting' = FALSE
                    /\ offset' = offset
                    /\ pc' = "done"
                    /\ exit_status' = <<0>>
               ELSE /\ keep_extracting' = TRUE
                    /\ offset' = next_offset(offset)
                    /\ pc' = "get_events_batch"
                    /\ exit_status' = exit_status
            /\ exception' = exception
    /\ UNCHANGED <<args, utc_offset, request_headers, request_params, raw_events,
                   remote, http_log, pages, parseVars>>

-----------------------------------------------------------------------------
(* The runs of the program *)

MaxFullPages == 2    \* the service holds fewer than MaxFullPages + 1 pages of events

\* the i-th newest of n events; position bad, if not 0, holds an event without timestamp
RemoteEvent(i, n, bad) ==
    LET kind == i % 3
    IN  [timestamp |-> IF i = bad THEN <<>> ELSE << (n - i) * 1000 >>,
         actor     |-> << TheActor >>,
         action    |-> << TheAction >>,
         in        |-> IF kind = 0 THEN <<>>
                       ELSE << [entityType |-> <<"project">>, id |-> <<"p-1">>,
                                 name |-> <<"quick-start">>] >>,
         targets   |-> IF kind = 1 THEN << <<UserTarget>> >>
                       ELSE IF kind = 2 THEN << <<DatasetFileTarget, OtherTarget>> >>
                       ELSE <<>>,
         affecting |-> IF kind = 2
                       THEN << << [entityType |-> <<"file">>, id |-> <<"a-1">>,
                                   name |-> <<"n1">>] >> >>
                       ELSE <<>>,
         metadata  |-> <<>>]

Remotes ==
    UNION { { [i \in 1..n |-> RemoteEvent(i, n, bad)] : bad \in 0..n } :
              n \in 0..(MaxFullPages * BATCH_LIMIT + BATCH_LIMIT - 1) }

StaleRows == << <<"left over">> >>

CommandLines ==
    [jwt : {None, "jwt-token"}, api_key : {None, "api-key"},
     startTimestamp : Opt(DateTexts), endTimestamp : Opt(DateTexts)]

Init ==
    /\ ParserIdle
    /\ pc = "main"
    /\ args \in CommandLines
    /\ utc_offset \in {0, 3600}
    /\ request_headers = <<>>
    /\ request_params = <<>>
    /\ offset = 0
    /\ keep_extracting = FALSE
    /\ raw_events = <<>>
    /\ csv_file \in {<<>>, <<StaleRows>>}
    /\ remote \in Remotes
    /\ http_log = <<>>
    /\ pages = <<>>
    /\ exit_status = <<>>
    /\ exception = NoException

Next ==
    \/ MainExits
    \/ MainCallsExport
    \/ InitializeCsv
    \/ GetEventsBatchOk
    \/ GetEventsBatchErrorStatus
    \/ GetEventsBatchRaises
    \/ ParseAndWrite

Spec == Init /\ [][Next]_vars

\* the process is scheduled until it ends
FairSpec == Spec /\ WF_vars(Next)

-----------------------------------------------------------------------------
(* Properties of the export run *)

Statuses == [i \in 1..Len(http_log) |-> http_log[i].status]

AllAnswered200 == \A i \in 1..Len(http_log) : http_log[i].status = "200"

Ended == pc \in {"done", "raised", "exited"}

\* C1: a run over n full pages followed by a short page issues exactly n+1
\* fetches, at offsets 0, limit, .., n*limit in that order, and then stops:
\* the i-th request always carries offset (i-1)*limit, every page before the
\* last one fetched is full, a short page ends the loop, and a completed run
\* has issued one fetch per page with only the last page short.
C1_PaginationOffsets ==
    /\ \A i \in 1..Len(http_log) :
          /\ http_log[i].offset = (i - 1) * BATCH_LIMIT
          /\ http_log[i].limit = BATCH_LIMIT
    /\ \A i \in 1..(Len(pages) - 1) : Len(pages[i]) = BATCH_LIMIT
    /\ (pages # <<>> /\ Len(pages[Len(pages)]) < BATCH_LIMIT /\ pc # "parse_and_write")
          => Ended
    /\ pc = "done" =>
          /\ Len(http_log) = Len(pages)
          /\ Len(pages[Len(pages)]) < BATCH_LIMIT
          /\ offset = (Len(pages) - 1) * BATCH_LIMIT

\* page sizes [limit, limit, k] with 0 < k < limit: three fetches at 0, limit, 2*limit
C1_Witness ==
    /\ pc = "done"
    /\ AllAnswered200
    /\ Len(pages) = 3
    /\ Len(pages[1]) = BATCH_LIMIT /\ Len(pages[2]) = BATCH_LIMIT
    /\ Len(pages[3]) > 0 /\ Len(pages[3]) < BATCH_LIMIT
    /\ [i \in 1..Len(http_log) |-> http_log[i].offset] = <<0, BATCH_LIMIT, 2 * BATCH_LIMIT>>

\* C2: a fetch that fails, or that is answered with a non-success status, ends
\* the run with an error: it is the last fetch, its response is not taken as
\* a page of events, and the run does not complete normally.
C2_TransportErrorHalts ==
    \A i \in 1..Len(http_log) :
        http_log[i].status # "200" =>
            /\ i = Len(http_log)
            /\ Len(pages) = i - 1
            /\ pc = "raised"
            /\ exception # NoException

RECURSIVE RowsOfPages(_, _)
RowsOfPages(pgs, k) ==
    IF k = 0 THEN <<>>
    ELSE RowsOfPages(pgs, k - 1)
         \o [i \in 1..Len(pgs[k]) |-> CsvRow(parse_event(pgs[k][i]))]

ParseExceptions == {"KeyError", "TypeError"}

\* the pages whose rows have been handed to write_to_csv
PagesCompleted ==
    IF pc = "parse_and_write" \/ (pc = "raised" /\ exception \in ParseExceptions)
    THEN Len(pages) - 1
    ELSE Len(pages)

\* C3: once the export has started, the file holds the header row exactly once,
\* as its first row, followed by the rows of every completed page in arrival
\* order, one row per event; a fetch is issued only when the rows of all pages
\* fetched before are in the file, and they are still there when the run has
\* ended.
C3_SinkHoldsCompletedPages ==
    pc \in {"get_events_batch", "parse_and_write", "done", "raised"} =>
        /\ csv_file # <<>>
        /\ csv_file[1] = <<CSV_HEADERS>> \o RowsOfPages(pages, PagesCompleted)
        /\ Cardinality({ i \in 1..Len(csv_file[1]) : csv_file[1][i] = CSV_HEADERS }) = 1
        /\ pc = "get_events_batch" => PagesCompleted = Len(http_log)

\* the run halts on a failed fetch after two pages were written
C3_Witness ==
    /\ pc = "raised"
    /\ exception = "ConnectionError"
    /\ Len(http_log) = 3
    /\ Len(csv_file[1]) = 1 + 2 * BATCH_LIMIT
    /\ csv_file[1][2] = CsvRow(parse_event(remote[1]))

\* the classification of the command line the validations are checked against
ConfigurationError(a) ==
    \/ a.jwt = None /\ a.api_key = None
    \/ a.startTimestamp # <<>> /\ a.startTimestamp[1] \in InvalidDateTexts
    \/ a.endTimestamp # <<>> /\ a.endTimestamp[1] \in InvalidDateTexts

RECURSIVE RowsOfEvents(_)
RowsOfEvents(events) ==
    IF events = <<>> THEN <<>>
    ELSE << CsvRow(parse_event(Head(events))) >> \o RowsOfEvents(Tail(events))

\* what a run that completed against a service answering every request holds
C10_CompletedRun ==
    (pc = "done" /\ AllAnswered200) =>
        /\ Len(http_log) = (Len(remote) \div BATCH_LIMIT) + 1
        /\ \A i \in 1..Len(http_log) : http_log[i].offset = (i - 1) * BATCH_LIMIT
        /\ Len(pages[Len(pages)]) = Len(remote) % BATCH_LIMIT
        /\ csv_file = << <<CSV_HEADERS>> \o RowsOfEvents(remote) >>
        /\ offset = (Len(remote) \div BATCH_LIMIT) * BATCH_LIMIT

\* the loop ends normally exactly when a page shorter than the limit was processed
C10_EndsOnShortPage ==
    /\ pc = "done" => Len(pages[Len(pages)]) < BATCH_LIMIT
    /\ (pc = "get_events_batch" /\ pages # <<>>) => Len(pages[Len(pages)]) = BATCH_LIMIT

\* C10: when the service holds exactly m*limit events and answers the request
\* past the end with an empty page, the run still terminates: it issues m+1
\* fetches at offsets 0 .. m*limit, the last returning no event, writes every
\* event exactly once and ends with offset m*limit; in general the loop ends
\* normally if and only if a fetch returned fewer than limit events, and every
\* run ends.
C10_ExactMultipleTerminates ==
    /\ [](C10_CompletedRun /\ C10_EndsOnShortPage)
    /\ <>Ended

\* two full pages, then the empty page found at offset 2*limit
C10_Witness ==
    /\ pc = "done"
    /\ AllAnswered200
    /\ Len(remote) = 2 * BATCH_LIMIT
    /\ Len(http_log) = 3
    /\ pages[3] = <<>>
    /\ offset = 2 * BATCH_LIMIT
    /\ Len(csv_file[1]) = 1 + 2 * BATCH_LIMIT

-----------------------------------------------------------------------------
(* Properties of parse_event and flatten_target *)

\* the display name of an entity reference: its name if present, otherwise its id
DisplayName(e) ==
    IF e.name # <<>> THEN e.name[1]
    ELSE IF e.id # <<>> THEN e.id[1]
    ELSE None

TypeOf(e) == IF e.entityType = <<>> THEN None ELSE e.entityType[1]

AffectingOf(ev) == IF ev.affecting = <<>> THEN <<>> ELSE ev.affecting[1]

TargetsOf(ev) == IF ev.targets = <<>> THEN <<>> ELSE ev.targets[1]

HasType(aff, types) == \E i \in 1..Len(aff) : TypeOf(aff[i]) \in types

\* the last entry of aff whose type is in types
LastOfType(aff, types) ==
    aff[CHOOSE i \in 1..Len(aff) :
            /\ TypeOf(aff[i]) \in types
            /\ \A j \in (i + 1)..Len(aff) : TypeOf(aff[j]) \notin types]

Returned == parse_pc = "returned"

Row == parsed_event[1]

\* C4: parse_event never fails, whatever fields of the event are absent, and
\* the columns of the absent fields are null in the record it returns.
C4_NormalizerNeverFails ==
    /\ parse_pc # "raised"
    /\ parse_exception = NoException
    /\ Returned =>
          /\ raw_event.actor = <<>> => Row[USER_NAME] = None
          /\ raw_event.action = <<>> => Row[EVENT] = None
          /\ raw_event.in = <<>> => Row[PROJECT_NAME] = None
          /\ (raw_event.targets = <<>> /\ raw_event.metadata = <<>>) =>
                \A c \in {TARGET_NAME, OLD_VALUE, NEW_VALUE, ADDED_VALUE, REMOVED_VALUE,
                          JOBS, FEATURE_FLAG, COMMAND} : Row[c] = None

\* C5: all affecting entries are visited in order and the last entry of a
\* matching type decides the column: dataset name from the last "dataset"
\* entry, target user from the last "user"/"appliedUser" entry (name, else
\* id), file name from the last "file" entry (its name).
C5_LastAffectingWins ==
    Returned =>
        LET aff == AffectingOf(raw_event)
        IN  /\ HasType(aff, {"dataset"}) =>
                  Row[DATASET_NAME] = DisplayName(LastOfType(aff, {"dataset"}))
            /\ HasType(aff, {"appliedUser", "user"}) =>
                  Row[TARGET_USER] = DisplayName(LastOfType(aff, {"appliedUser", "user"}))
            /\ HasType(aff, {"file"}) =>
                  Row[FILE_NAME] = (LET f == LastOfType(aff, {"file"})
                                    IN  IF f.name # <<>> THEN f.name[1] ELSE None)

\* "dataset" n1, then "file", then "dataset" n2: the second dataset wins, the file is kept
C5_Witness ==
    /\ Returned
    /\ Len(AffectingOf(raw_event)) = 3
    /\ TypeOf(AffectingOf(raw_event)[1]) = "dataset"
    /\ AffectingOf(raw_event)[1].name = <<"n1">>
    /\ TypeOf(AffectingOf(raw_event)[2]) = "file"
    /\ AffectingOf(raw_event)[2].name = <<"n1">>
    /\ TypeOf(AffectingOf(raw_event)[3]) = "dataset"
    /\ AffectingOf(raw_event)[3].name = <<"n2">>
    /\ Row[DATASET_NAME] = "n2"
    /\ Row[FILE_NAME] = "n1"

\* names separated by single commas, built from the left
RECURSIVE CommaJoined(_, _)
CommaJoined(entities, k) ==
    IF k = 0 THEN ""
    ELSE IF k = 1 THEN DisplayName(entities[1])
    ELSE CommaJoined(entities, k - 1) \o "," \o DisplayName(entities[k])

FirstChangeOf(ev) ==
    LET t == TargetsOf(ev)[1]
    IN  (IF t.fieldChanges = <<>> THEN <<>> ELSE t.fieldChanges[1])[1]

HasFirstChange(ev) ==
    /\ ev.timestamp # <<>>
    /\ TargetsOf(ev) # <<>>
    /\ TargetsOf(ev)[1].fieldChanges \notin {<<>>, << <<>> >>}

ListOf(opt) == IF opt = <<>> THEN <<>> ELSE opt[1]

\* C6: the added and removed lists of the first field change are rendered as
\* the display names of their entities, in order, joined by single commas
\* without a trailing separator; an empty list renders as the empty string.
C6_ListsJoinDisplayNames ==
    (parse_pc # "call" /\ HasFirstChange(raw_event)) =>
        LET added == ListOf(FirstChangeOf(raw_event).added)
            removed == ListOf(FirstChangeOf(raw_event).removed)
        IN  (/\ \A i \in 1..Len(added) : DisplayName(added[i]) # None
             /\ \A i \in 1..Len(removed) : DisplayName(removed[i]) # None) =>
                /\ target_data # <<>>
                /\ target_data[1].added = << CommaJoined(added, Len(added)) >>
                /\ target_data[1].removed = << CommaJoined(removed, Len(removed)) >>

SoleUserTarget(ev) ==
    /\ Len(TargetsOf(ev)) = 1
    /\ TargetsOf(ev)[1].entity # <<>>
    /\ TypeOf(TargetsOf(ev)[1].entity[1]) = "user"

\* C7 as stated: a sole target of type "user" gives the target-user column
\* the target's display name and leaves dataset name, file name, jobs and
\* feature flag null.
C7_UserTargetColumns ==
    (Returned /\ SoleUserTarget(raw_event)) =>
        /\ Row[TARGET_USER] = DisplayName(TargetsOf(raw_event)[1].entity[1])
        /\ Row[DATASET_NAME] = None
        /\ Row[FILE_NAME] = None
        /\ Row[JOBS] = None
        /\ Row[FEATURE_FLAG] = None

\* C7 amended: for a sole target of type "user", jobs and feature flag are
\* null; target user is the target's display name unless an affecting entry
\* of type "user"/"appliedUser" overwrites it; dataset name (file name) is
\* null unless an affecting entry of type "dataset" ("file") fills it.
C7_UserTargetColumnsAmended ==
    (Returned /\ SoleUserTarget(raw_event)) =>
        LET aff == AffectingOf(raw_event)
        IN  /\ Row[JOBS] = None
            /\ Row[FEATURE_FLAG] = None
            /\ ~HasType(aff, {"appliedUser", "user"}) =>
                  Row[TARGET_USER] = DisplayName(TargetsOf(raw_event)[1].entity[1])
            /\ ~HasType(aff, {"dataset"}) => Row[DATASET_NAME] = None
            /\ ~HasType(aff, {"file"}) => Row[FILE_NAME] = None

\* a sole "user" target next to an affecting entry that fills the file name only
C7_Witness ==
    /\ Returned
    /\ SoleUserTarget(raw_event)
    /\ Len(AffectingOf(raw_event)) = 1
    /\ TypeOf(AffectingOf(raw_event)[1]) = "file"
    /\ Row[TARGET_USER] = "t-name"
    /\ Row[FILE_NAME] = "n1"
    /\ Row[DATASET_NAME] = None

\* C8: every column filled from an entity reference holds the display name
\* of that reference: user name (actor), project name (containing scope),
\* target name (first target), dataset name, target user and file name
\* (last affecting entry of the matching type).
C8_ColumnsHoldDisplayNames ==
    Returned =>
        LET aff == AffectingOf(raw_event)
            targets == TargetsOf(raw_event)
        IN  /\ raw_event.actor # <<>> => Row[USER_NAME] = DisplayName(raw_event.actor[1])
            /\ (raw_event.in # <<>> /\ TypeOf(raw_event.in[1]) = "project") =>
                  Row[PROJECT_NAME] = DisplayName(raw_event.in[1])
            /\ (targets # <<>> /\ targets[1].entity # <<>>) =>
                  Row[TARGET_NAME] = DisplayName(targets[1].entity[1])
            /\ HasType(aff, {"dataset"}) =>
                  Row[DATASET_NAME] = DisplayName(LastOfType(aff, {"dataset"}))
            /\ HasType(aff, {"appliedUser", "user"}) =>
                  Row[TARGET_USER] = DisplayName(LastOfType(aff, {"appliedUser", "user"}))
            /\ HasType(aff, {"file"}) =>
                  Row[FILE_NAME] = DisplayName(LastOfType(aff, {"file"}))

====
